---- MODULE Spec2Model ----
(***************************************************************************)
(* Model of utils.py: the vocabulary builder (build_vocab), the line       *)
(* loader (build_dataset.load_dataset) and the batch iterator              *)
(* (DatasetIterater).                                                      *)
(*                                                                         *)
(* Three specifications share the variables:                               *)
(*   SpecIter   one DatasetIterater: construction, then calls of __next__  *)
(*   SpecVocab  one call of build_vocab, reading its corpus line by line   *)
(*   SpecLoad   one call of load_dataset on a file, with a vocabulary that *)
(*              build_vocab returned                                       *)
(* Python's dict is modelled as a sequence of <<key, value>> pairs in      *)
(* insertion order, which is the order dict.items() and enumerate() see.   *)
(***************************************************************************)
EXTENDS Integers, Sequences, FiniteSets, TLC

\* ---------------------------------------------------------------- bounds
MaxN == 10         \* largest dataset handed to DatasetIterater
MaxB == 4          \* largest batch_size
MaxPasses == 2     \* completed passes over the iterator that are observed
MaxLines == 2      \* lines of the corpus build_vocab reads
MaxToks == 2       \* tokens of a line
MaxSize == 2       \* largest max_size given to build_vocab
MaxFreq == 2       \* largest min_freq given to build_vocab
MaxPad == 3        \* largest pad_size given to load_dataset
MaxFileLines == 1  \* lines of the file load_dataset reads

\* ------------------------------------------------------ program constants
UNK == "<UNK>"
PAD == "<PAD>"
MAX_VOCAB_SIZE == 10000
\* pad_size = None; every other pad_size of the model is an integer >= 0
None == -1

VARIABLES
    \* DatasetIterater
    batches, batch_size, n_batches, residue, index, pc,
    \* what the caller of __next__ has seen
    raised, ret, cur, first, last, passes,
    \* build_vocab
    vocab_dic, nread, max_size, min_freq, counted, vocab, vpc,
    \* load_dataset
    path, pad_size, contents, lpc

iterVars == <<batches, batch_size, n_batches, residue, index, pc,
              raised, ret, cur, first, last, passes>>
vocabVars == <<vocab_dic, nread, max_size, min_freq, counted, vpc>>
loadVars == <<path, pad_size, contents, lpc>>
vars == <<iterVars, vocabVars, vocab, loadVars>>

Min(a, b) == IF a < b THEN a ELSE b

\* ================================================================ iterator
\* One item of a dataset, as load_dataset builds it: (words_line, label,
\* seq_len).  Item i carries i as its only word id, so items are distinct.
Item(i) == <<<<i>>, i % 2, 1>>

Dataset(n) == [i \in 1..n |-> Item(i)]

\* Python's s[a:b] for 0 <= a, 0 <= b (0-based, b exclusive, clipped).
Slice(s, a, b) == SubSeq(s, a + 1, Min(b, Len(s)))

\* _to_tensor: a list of (x, y, seq_len) rows becomes ((xs, seq_lens), ys).
to_tensor(datas) ==
    <<<<[i \in 1..Len(datas) |-> datas[i][1]],
        [i \in 1..Len(datas) |-> datas[i][3]]>>,
      [i \in 1..Len(datas) |-> datas[i][2]]>>

\* __len__
DatasetIterater_len == IF residue THEN n_batches + 1 ELSE n_batches

InitIterFields ==
    /\ n_batches = 0
    /\ residue = FALSE
    /\ index = 0
    /\ pc = "new"
    /\ raised = "none"
    /\ ret = <<>>
    /\ cur = <<>>
    /\ first = <<>>
    /\ last = <<>>
    /\ passes = 0

\* __init__: both `//` and `%` raise ZeroDivisionError on a zero divisor, and
\* the object is then never constructed.
DatasetIterater_init ==
    /\ pc = "new"
    /\ IF batch_size = 0
       THEN /\ pc' = "ZeroDivisionError"
            /\ UNCHANGED <<n_batches, residue>>
       ELSE /\ n_batches' = Len(batches) \div batch_size
            /\ IF n_batches' = 0
               THEN /\ pc' = "ZeroDivisionError"
                    /\ UNCHANGED residue
               ELSE /\ residue' = (Len(batches) % n_batches' # 0)
                    /\ pc' = "ready"
    /\ index' = 0
    /\ raised' = IF pc' = "ready" THEN "none" ELSE pc'
    /\ UNCHANGED <<batches, batch_size, ret, cur, first, last, passes>>

\* A pass ends with StopIteration: the caller's record of the pass is closed.
EndPass ==
    /\ raised' = "StopIteration"
    /\ ret' = ret
    /\ last' = cur
    /\ first' = IF passes = 0 THEN cur ELSE first
    /\ passes' = passes + 1
    /\ cur' = <<>>

Yield(b) ==
    /\ raised' = "none"
    /\ ret' = to_tensor(b)
    /\ cur' = Append(cur, ret')
    /\ UNCHANGED <<first, last, passes>>

\* __next__ without the reset of index on StopIteration.
DatasetIterater_next_noreset ==
    /\ pc = "ready"
    /\ passes < MaxPasses
    /\ IF residue /\ index = n_batches
       THEN /\ Yield(Slice(batches, index * batch_size, Len(batches)))
            /\ index' = index + 1
       ELSE IF index >= n_batches
       THEN /\ index' = index
            /\ EndPass
       ELSE /\ Yield(Slice(batches, index * batch_size, (index + 1) * batch_size))
            /\ index' = index + 1
    /\ UNCHANGED <<batches, batch_size, n_batches, residue, pc>>

\* __next__
DatasetIterater_next ==
    /\ pc = "ready"
    /\ passes < MaxPasses
    /\ IF residue /\ index = n_batches
       THEN /\ Yield(Slice(batches, index * batch_size, Len(batches)))
            /\ index' = index + 1
       ELSE IF index >= n_batches
       THEN /\ index' = 0
            /\ EndPass
       ELSE /\ Yield(Slice(batches, index * batch_size, (index + 1) * batch_size))
            /\ index' = index + 1
    /\ UNCHANGED <<batches, batch_size, n_batches, residue, pc>>

IdleVocab ==
    /\ vocab_dic = <<>>
    /\ nread = 0
    /\ max_size = 0
    /\ min_freq = 1
    /\ counted = <<>>
    /\ vocab = <<>>
    /\ vpc = "idle"

IdleLoad ==
    /\ path = <<>>
    /\ pad_size = 0
    /\ contents = <<>>
    /\ lpc = "idle"

InitIter ==
    /\ \E n \in 0..MaxN : batches = Dataset(n)
    /\ batch_size \in 0..MaxB
    /\ InitIterFields
    /\ IdleVocab
    /\ IdleLoad

NextIter ==
    \/ DatasetIterater_init /\ UNCHANGED <<vocabVars, vocab, loadVars>>
    \/ DatasetIterater_next /\ UNCHANGED <<vocabVars, vocab, loadVars>>

SpecIter == InitIter /\ [][NextIter]_vars

\* ------------------------------------------------ iterator: the claims
N == Len(batches)

\* The rows of a batch the caller received, read back from its tensors.
Rows(t) == [i \in 1..Len(t[2]) |-> <<t[1][1][i], t[2][i], t[1][2][i]>>]

RECURSIVE Flatten(_)
Flatten(bs) ==
    IF bs = <<>> THEN <<>>
    ELSE Flatten(SubSeq(bs, 1, Len(bs) - 1)) \o Rows(bs[Len(bs)])

Ceil(a, b) == (a + b - 1) \div b

\* A pass from index 0 has run to its StopIteration; `last` holds its batches.
PassDone == pc = "ready" /\ passes >= 1

\* C1: for N > B and N mod B # 0, a completed pass ends with a partial batch
\* holding exactly the last N mod B items, and no item of the dataset is dropped.
C1_FinalPartialBatch ==
    (PassDone /\ N > batch_size /\ N % batch_size # 0) =>
        /\ last # <<>>
        /\ Rows(last[Len(last)]) = Slice(batches, N - (N % batch_size), N)
        /\ Flatten(last) = batches

\* C2: for N >= B the batches of a completed pass are consecutive slices in the
\* dataset's order: batch i starts at item i*B, every batch but the last has B
\* items, none is empty, and their concatenation is the dataset.
C2_ConsecutiveSlices ==
    (PassDone /\ N >= batch_size) =>
        /\ \A i \in 1..Len(last) :
              /\ Rows(last[i]) # <<>>
              /\ Rows(last[i])[1] = batches[(i - 1) * batch_size + 1]
              /\ i < Len(last) => Len(Rows(last[i])) = batch_size
        /\ Flatten(last) = batches

\* C3: for 0 < N < B the constructor raises nothing, and a pass yields exactly
\* one batch, holding all N items.
C3_SmallDatasetConstructs ==
    (pc # "new" /\ 0 < N /\ N < batch_size) =>
        /\ pc = "ready"
        /\ passes >= 1 => (Len(last) = 1 /\ Rows(last[1]) = batches)

\* C7: for every constructed iterator __len__ is the number of batches a pass
\* yields, and both are ceil(N / B).
C7_LenIsCeil ==
    pc = "ready" =>
        /\ DatasetIterater_len = Ceil(N, batch_size)
        /\ passes >= 1 => Len(last) = DatasetIterater_len

\* C8: the iterator is re-iterable: StopIteration comes only once all
\* __len__() batches of the pass (at least one) have been yielded, it leaves
\* index at 0, every later pass yields the batches of the first pass, and
\* 0 <= index <= __len__() throughout.
C8_ReIterable ==
    pc = "ready" =>
        /\ 0 <= index /\ index <= DatasetIterater_len
        /\ raised = "StopIteration" =>
              /\ index = 0
              /\ Len(last) = DatasetIterater_len
              /\ Len(last) >= 1
        /\ raised # "StopIteration" => index = Len(cur)
        /\ passes >= 1 =>
              /\ last = first
              /\ Len(cur) <= Len(first)
              /\ cur = SubSeq(first, 1, Len(cur))

\* A second pass has completed on an iterator that has a partial last batch.
C8_Witness ==
    /\ pc = "ready"
    /\ passes = 2
    /\ raised = "StopIteration"
    /\ residue
    /\ Len(last) >= 3

\* ============================================================= build_vocab
\* The tokens a line can hold: two ordinary ones and the two reserved strings,
\* which a word-level corpus may contain as ordinary tokens.
Tokens == {"a", "b", UNK, PAD}

\* tokenizer(content) of a line of at most n tokens; <<>> is a line that is
\* empty after strip().
TokenLists(n) == UNION {[1..k -> Tokens] : k \in 0..n}

\* dict: a sequence of <<key, value>> pairs in insertion order.
dict_keys(d) == {d[i][1] : i \in 1..Len(d)}

\* d.get(k, default)
dict_get(d, k, default) ==
    IF k \in dict_keys(d)
    THEN d[CHOOSE i \in 1..Len(d) : d[i][1] = k][2]
    ELSE default

\* d[k] = v: a key already present keeps its place
dict_set(d, k, v) ==
    IF k \in dict_keys(d)
    THEN [i \in 1..Len(d) |-> IF d[i][1] = k THEN <<k, v>> ELSE d[i]]
    ELSE Append(d, <<k, v>>)

\* for word in tokenizer(content): vocab_dic[word] = vocab_dic.get(word, 0) + 1
RECURSIVE count_words(_, _)
count_words(dic, words) ==
    IF words = <<>> THEN dic
    ELSE count_words(dict_set(dic, Head(words), dict_get(dic, Head(words), 0) + 1),
                     Tail(words))

\* One round of `for line in f`: an empty line is skipped.
count_line(dic, lin) == IF lin = <<>> THEN dic ELSE count_words(dic, lin)

\* sorted(items, key=count, reverse=True): Python's sort is stable, also with
\* reverse=True, so items of equal count keep their order.
RECURSIVE sorted_desc(_)
sorted_desc(items) ==
    IF items = <<>> THEN <<>>
    ELSE LET init == sorted_desc(SubSeq(items, 1, Len(items) - 1))
             x == items[Len(items)]
             k == Cardinality({i \in 1..Len(init) : init[i][2] >= x[2]})
         IN SubSeq(init, 1, k) \o <<x>> \o SubSeq(init, k + 1, Len(init))

\* vocab_list: the items of count >= min_freq, by falling count, cut to max_size
vocab_list_of(dic, maxsize, minfreq) ==
    LET AtLeast(p) == p[2] >= minfreq
    IN Slice(sorted_desc(SelectSeq(dic, AtLeast)), 0, maxsize)

\* {word_count[0]: idx for idx, word_count in enumerate(vocab_list)}
enumerate_vocab(vocab_list) ==
    [i \in 1..Len(vocab_list) |-> <<vocab_list[i][1], i - 1>>]

\* the update with PAD given the id of UNK
vocab_update_same_id(dic) ==
    dict_set(dict_set(dic, UNK, Len(dic)), PAD, Len(dic))

\* vocab_dic.update({UNK: len(vocab_dic), PAD: len(vocab_dic) + 1}): both
\* lengths are taken before the update changes the dict.
vocab_update(dic) ==
    dict_set(dict_set(dic, UNK, Len(dic)), PAD, Len(dic) + 1)

\* build_vocab from the counts on: lines 27-34
vocab_from_counts(dic, maxsize, minfreq) ==
    vocab_update(enumerate_vocab(vocab_list_of(dic, maxsize, minfreq)))

\* build_vocab on a whole corpus (a sequence of lines)
RECURSIVE count_corpus(_, _)
count_corpus(dic, lines) ==
    IF lines = <<>> THEN dic
    ELSE count_corpus(count_line(dic, Head(lines)), Tail(lines))

build_vocab(lines, maxsize, minfreq) ==
    vocab_from_counts(count_corpus(<<>>, lines), maxsize, minfreq)

InitVocab ==
    /\ vocab_dic = <<>>
    /\ nread = 0
    /\ max_size \in (0..MaxSize) \cup {MAX_VOCAB_SIZE}
    /\ min_freq \in 1..MaxFreq
    /\ counted = <<>>
    /\ vocab = <<>>
    /\ vpc = "reading"
    /\ batches = <<>>
    /\ batch_size = 1
    /\ InitIterFields
    /\ IdleLoad

\* build_vocab, one round of the loop over the lines of the file
build_vocab_line ==
    /\ vpc = "reading"
    /\ nread < MaxLines
    /\ \E lin \in TokenLists(MaxToks) : vocab_dic' = count_line(vocab_dic, lin)
    /\ nread' = nread + 1
    /\ UNCHANGED <<max_size, min_freq, counted, vocab, vpc>>

\* build_vocab, the end of the file: sort, cut, number, add the reserved ids
build_vocab_return ==
    /\ vpc = "reading"
    /\ counted' = vocab_dic
    /\ vocab' = vocab_from_counts(vocab_dic, max_size, min_freq)
    /\ vocab_dic' = vocab'
    /\ vpc' = "done"
    /\ UNCHANGED <<nread, max_size, min_freq>>

NextVocab ==
    \/ build_vocab_line /\ UNCHANGED <<iterVars, loadVars>>
    \/ build_vocab_return /\ UNCHANGED <<iterVars, loadVars>>

SpecVocab == InitVocab /\ [][NextVocab]_vars

\* --------------------------------------------- build_vocab: the claims
CorpusTokens == dict_keys(counted)
CorpusCount(w) == dict_get(counted, w, 0)
Eligible == {w \in CorpusTokens : CorpusCount(w) >= min_freq}
\* min(max_size, E)
K == Min(max_size, Cardinality(Eligible))
Id(w) == dict_get(vocab, w, None)

\* S can be the set of kept tokens C4 speaks of
IsKeptSet(S) ==
    /\ Cardinality(S) = K
    /\ S \subseteq dict_keys(vocab)
    /\ \A w \in S : \A c \in Eligible \ S : CorpusCount(w) >= CorpusCount(c)
    /\ {Id(w) : w \in S} = 0..(K - 1)
    /\ \A w1 \in S : \A w2 \in S :
          Id(w1) < Id(w2) => CorpusCount(w1) >= CorpusCount(w2)

\* C4: build_vocab keeps exactly min(max_size, E) corpus tokens, none of them
\* rarer than an eligible token that was cut, with the ids 0..k-1 in order of
\* non-increasing count.
C4_KeepsMostFrequent ==
    vpc = "done" => \E S \in SUBSET Eligible : IsKeptSet(S)

\* C5: the returned vocabulary holds <UNK> with id k and <PAD> with id k+1,
\* k the number of kept corpus tokens, and no other token has either id.
C5_ReservedIds ==
    vpc = "done" =>
        /\ UNK \in dict_keys(vocab)
        /\ PAD \in dict_keys(vocab)
        /\ Id(UNK) = K
        /\ Id(PAD) = K + 1
        /\ \A w \in dict_keys(vocab) \ {UNK, PAD} : Id(w) \notin {K, K + 1}
        /\ Cardinality(dict_keys(vocab)) = Len(vocab)

\* A vocabulary returned for a corpus whose eligible tokens were cut by
\* max_size and in which <UNK> occurs as an ordinary token.
C5_Witness ==
    /\ vpc = "done"
    /\ Cardinality(Eligible) > max_size
    /\ UNK \in CorpusTokens
    /\ Len(vocab) >= 3

\* C9: the ids of the returned vocabulary are pairwise distinct and are
\* exactly 0..len(vocab)-1.
C9_IdsAreRowIndices ==
    vpc = "done" =>
        /\ \A i \in 1..Len(vocab) : \A j \in 1..Len(vocab) :
              vocab[i][2] = vocab[j][2] => i = j
        /\ {vocab[i][2] : i \in 1..Len(vocab)} = 0..(Len(vocab) - 1)

\* ============================================================ load_dataset
\* The labels a line can carry, as the text after the tab.
Labels == {"0", "1"}

\* int(label)
int_of(label) == CHOOSE n \in 0..9 : ToString(n) = label

\* A line of the file after strip() and split("\t"): the tokens of its content
\* and its label.  BlankLine is a line that is empty after strip().
BlankLine == [content |-> <<>>, label |-> ""]

FileLines(n) ==
    {BlankLine} \cup
    {[content |-> c, label |-> l] : c \in TokenLists(n) \ {<<>>}, l \in Labels}

Files == UNION {[1..k -> FileLines(MaxToks)] : k \in 0..MaxFileLines}

\* `if pad_size:` is false for None and for 0
Truthy(p) == p # None /\ p # 0

\* pad_token that never cuts a long line
pad_token_uncut(token, padsize) ==
    IF Truthy(padsize) /\ Len(token) < padsize
    THEN token \o [i \in 1..(padsize - Len(token)) |-> PAD]
    ELSE token

\* lines 62-66: the token list, padded with PAD or cut to pad_size
pad_token(token, padsize) ==
    IF Truthy(padsize)
    THEN IF Len(token) < padsize
         THEN token \o [i \in 1..(padsize - Len(token)) |-> PAD]
         ELSE Slice(token, 0, padsize)
    ELSE token

\* seq_len taken after the padding
seq_len_padded(token, padsize) == Len(pad_token(token, padsize))

\* lines 61-67: seq_len, the token count, set to pad_size when the line is cut
seq_len_of(token, padsize) ==
    IF Truthy(padsize) /\ ~(Len(token) < padsize) THEN padsize ELSE Len(token)

\* lines 69-70: vocab.get(word, vocab.get(UNK)) for every word
word_to_id(voc, token) ==
    [i \in 1..Len(token) |-> dict_get(voc, token[i], dict_get(voc, UNK, None))]

\* lines 58-71: the entry appended for one line
load_line(voc, lin, padsize) ==
    <<word_to_id(voc, pad_token(lin.content, padsize)),
      int_of(lin.label),
      seq_len_of(lin.content, padsize)>>

\* load_dataset(path, pad_size): the entries of the lines that are not empty
RECURSIVE load_dataset(_, _, _)
load_dataset(voc, lines, padsize) ==
    IF lines = <<>> THEN <<>>
    ELSE IF Head(lines).content = <<>>
         THEN load_dataset(voc, Tail(lines), padsize)
         ELSE <<load_line(voc, Head(lines), padsize)>>
              \o load_dataset(voc, Tail(lines), padsize)

\* The training corpora the vocabulary of load_dataset was built from.
TrainCorpora == {<<c>> : c \in UNION {[1..k -> {"a", UNK}] : k \in 0..MaxToks}}

\* build_dataset: vocab = build_vocab(train_path, max_size=MAX_VOCAB_SIZE,
\* min_freq=1), and load_dataset is called with it on a file.
InitLoad ==
    /\ vocab \in {build_vocab(c, MAX_VOCAB_SIZE, 1) : c \in TrainCorpora}
    /\ path \in Files
    /\ pad_size \in {None} \cup (0..MaxPad)
    /\ contents = <<>>
    /\ lpc = "start"
    /\ vocab_dic = vocab
    /\ nread = 0
    /\ max_size = MAX_VOCAB_SIZE
    /\ min_freq = 1
    /\ counted = <<>>
    /\ vpc = "idle"
    /\ batches = <<>>
    /\ batch_size = 1
    /\ InitIterFields

LoadDataset ==
    /\ lpc = "start"
    /\ contents' = load_dataset(vocab, path, pad_size)
    /\ lpc' = "done"
    /\ UNCHANGED <<path, pad_size>>

NextLoad == LoadDataset /\ UNCHANGED <<iterVars, vocabVars, vocab>>

SpecLoad == InitLoad /\ [][NextLoad]_vars

\* -------------------------------------------- load_dataset: the claims
NonBlank(lines) == LET Full(l) == l.content # <<>> IN SelectSeq(lines, Full)

\* the id C6 expects at a position that holds token w
ExpectedId(w) == IF w \in dict_keys(vocab) THEN Id(w) ELSE Id(UNK)

\* C6: with pad_size P > 0 every id sequence has length P; position i <
\* min(n, P) holds the id of token i (the <UNK> id for a token outside the
\* vocabulary), positions n..P-1 hold the <PAD> id.
C6_FixedLength ==
    (lpc = "done" /\ pad_size > 0) =>
        /\ Len(contents) = Len(NonBlank(path))
        /\ \A j \in 1..Len(contents) :
              LET ids == contents[j][1]
                  tok == NonBlank(path)[j].content
                  n == Len(tok)
              IN /\ Len(ids) = pad_size
                 /\ \A i \in 1..Min(n, pad_size) : ids[i] = ExpectedId(tok[i])
                 /\ \A i \in (n + 1)..pad_size : ids[i] = Id(PAD)

\* A line shorter than pad_size was loaded that holds a token outside the
\* vocabulary: its sequence has token ids, the <UNK> id and padding.
C6_Witness ==
    /\ lpc = "done"
    /\ pad_size > 0
    /\ \E j \in 1..Len(contents) :
          LET tok == NonBlank(path)[j].content
          IN /\ Len(tok) = 2
             /\ Len(tok) < pad_size
             /\ tok[1] \in dict_keys(vocab) \ {UNK, PAD}
             /\ tok[2] \notin dict_keys(vocab)

\* C10: seq_len is min(n, P) when pad_size P > 0, and n, with the sequence
\* neither padded nor cut, when pad_size is 0 or None.
C10_SeqLen ==
    lpc = "done" =>
        /\ Len(contents) = Len(NonBlank(path))
        /\ \A j \in 1..Len(contents) :
              LET ids == contents[j][1]
                  tok == NonBlank(path)[j].content
                  n == Len(tok)
              IN IF pad_size > 0
                 THEN contents[j][3] = Min(n, pad_size)
                 ELSE /\ contents[j][3] = n
                      /\ Len(ids) = n
                      /\ \A i \in 1..n : ids[i] = ExpectedId(tok[i])

\* A line shorter than pad_size was loaded: its seq_len is below the length
\* of its padded sequence.
C10_Witness ==
    /\ lpc = "done"
    /\ pad_size > 0
    /\ \E j \in 1..Len(contents) : contents[j][3] < Len(contents[j][1])

====
